---- MODULE Spec2Model ----
(***************************************************************************)
(* gex2-tools: the VFX texture container reader (src/gex/vfx/mod.rs) and   *)
(* the extraction loop that drives it (src/main.rs).                       *)
(*                                                                         *)
(* A container is a little-endian byte stream.  The reader turns it into   *)
(* a File of Texture records, from_texture derives each texture's          *)
(* geometry and decompress expands its pixels to RGBA8.                    *)
(*                                                                         *)
(* TLC's integers are 32-bit signed, so a Rust u32 is kept as two 16-bit   *)
(* halves [hi, lo]; every u32 operation below works on the halves and      *)
(* reports the overflow that `overflow-checks` (on in the dev profile, off *)
(* in the release profile) turns into a panic.  Bytes, 16-bit pixel words  *)
(* and buffer indices are plain integers.                                  *)
(***************************************************************************)
EXTENDS Integers, Sequences, FiniteSets, TLC

VARIABLES
    stream,           \* the bytes of the .vfx file being read
    overflow_checks,  \* the build profile: TRUE = dev (overflow panics), FALSE = release (wraps)
    pc,               \* position of extract_vfx
    pos,              \* read position of the BufReader in the stream
    texture_count,    \* File.texture_count once read (a u32)
    textures,         \* File.textures read so far
    parsed,           \* "pending", "ok" or "err": the outcome of read_le
    index,            \* loop index over vfx.textures (0-based)
    properties,       \* TextureProperties of the texture at index
    result            \* what decompress returned (or how it ended) for the texture at index

vars == <<stream, overflow_checks, pc, pos, texture_count, textures, parsed,
          index, properties, result>>

(***************************************************************************)
(* u32 arithmetic on 16-bit halves                                         *)
(***************************************************************************)

\* the u32 with value n, for 0 <= n < 2^31
U32(n) == [hi |-> n \div 65536, lo |-> n % 65536]

\* whether a u32 is small enough to be used as a plain integer (< 2^31)
Fits(v) == v.hi < 32768

\* the value of a u32 that Fits
ToInt(v) == v.hi * 65536 + v.lo

U32Lt(a, b) == a.hi < b.hi \/ (a.hi = b.hi /\ a.lo < b.lo)

U32IsZero(v) == v.hi = 0 /\ v.lo = 0

\* a - b on u32: the wrapped difference, and whether it overflowed (a < b)
Sub(a, b) ==
    LET borrow == IF a.lo < b.lo THEN 1 ELSE 0
    IN  [v |-> [hi |-> (a.hi - b.hi - borrow) % 65536, lo |-> (a.lo - b.lo) % 65536],
         overflow |-> U32Lt(a, b)]

\* a << n on u32: Rust masks the amount to 5 bits when it does not panic;
\* bits shifted out of the top are dropped and are not an overflow
Shl(a, n) ==
    LET k == n.lo % 32
        v == IF k >= 16
             THEN [hi |-> (a.lo * 2^(k - 16)) % 65536, lo |-> 0]
             ELSE [hi |-> (a.hi * 2^k + (a.lo * 2^k) \div 65536) % 65536,
                   lo |-> (a.lo * 2^k) % 65536]
    IN  [v |-> v, overflow |-> ~U32Lt(n, U32(32))]

\* a >> n on u32 (logical), the amount masked to 5 bits when it does not panic
Shr(a, n) ==
    LET k == n.lo % 32
        v == IF k >= 16
             THEN [hi |-> 0, lo |-> a.hi \div 2^(k - 16)]
             ELSE [hi |-> a.hi \div 2^k,
                   lo |-> (a.lo \div 2^k) + (a.hi % 2^k) * 2^(16 - k)]
    IN  [v |-> v, overflow |-> ~U32Lt(n, U32(32))]

\* the 32-bit product of two 16-bit halves, as halves
Mul16(x, y) ==
    LET t1 == x * (y \div 256)
        t0 == x * (y % 256)
        low == (t1 % 256) * 256 + t0
    IN  [hi |-> t1 \div 256 + low \div 65536, lo |-> low % 65536]

\* a * b on u32: the wrapped product, and whether it overflowed
Mul(a, b) ==
    LET p0 == Mul16(a.lo, b.lo)
        p1 == Mul16(a.lo, b.hi)
        p2 == Mul16(a.hi, b.lo)
        p3 == Mul16(a.hi, b.hi)
        s1 == p0.hi + p1.lo + p2.lo
    IN  [v |-> [hi |-> s1 % 65536, lo |-> p0.lo],
         overflow |-> p1.hi + p2.hi + p3.hi + p3.lo + s1 \div 65536 # 0]

(***************************************************************************)
(* bit operations on non-negative integers below 2^16                      *)
(***************************************************************************)

RECURSIVE BitAnd(_, _)
BitAnd(a, b) ==
    IF a = 0 \/ b = 0 THEN 0
    ELSE (a % 2) * (b % 2) + 2 * BitAnd(a \div 2, b \div 2)

RECURSIVE BitOr(_, _)
BitOr(a, b) ==
    IF a = 0 THEN b
    ELSE IF b = 0 THEN a
    ELSE (IF a % 2 = 1 \/ b % 2 = 1 THEN 1 ELSE 0) + 2 * BitOr(a \div 2, b \div 2)

\* `as u8`
AsU8(n) == n % 256

(***************************************************************************)
(* TextureFormat                                                           *)
(***************************************************************************)

RGB8A1 == 1
R7G6B5A1 == 11
ARGB4 == 12

TextureFormats == {RGB8A1, R7G6B5A1, ARGB4}

(***************************************************************************)
(* TextureProperties                                                       *)
(***************************************************************************)

\* the outcome of a function that panicked before producing a geometry
PanicProperties == [panic |-> TRUE, width |-> U32(0), height |-> U32(0), stride |-> U32(0)]

\* from_texture with the two branches of the aspect test exchanged
from_texture_swapped(texture, oc) ==
    LET d == Sub(U32(8), texture.size_1)
        s == Shl(U32(1), d.v)
        size == s.v
        aspect_ratio == texture.aspect_ratio
        stride == IF texture.format \in {R7G6B5A1, ARGB4} THEN U32(2) ELSE U32(1)
        narrow == U32Lt(U32(3), aspect_ratio)
        e == IF narrow THEN Sub(aspect_ratio, U32(3)) ELSE Sub(U32(3), aspect_ratio)
        r == Shr(size, e.v)
    IN  IF oc /\ (d.overflow \/ s.overflow \/ e.overflow \/ r.overflow)
        THEN PanicProperties
        ELSE IF narrow
        THEN [panic |-> FALSE, width |-> size, height |-> r.v, stride |-> stride]
        ELSE [panic |-> FALSE, width |-> r.v, height |-> size, stride |-> stride]

from_texture(texture, oc) ==
    LET d == Sub(U32(8), texture.size_1)
        s == Shl(U32(1), d.v)
        size == s.v
        aspect_ratio == texture.aspect_ratio
        stride == IF texture.format \in {R7G6B5A1, ARGB4} THEN U32(2) ELSE U32(1)
        narrow == U32Lt(U32(3), aspect_ratio)
        e == IF narrow THEN Sub(aspect_ratio, U32(3)) ELSE Sub(U32(3), aspect_ratio)
        r == Shr(size, e.v)
    IN  IF oc /\ (d.overflow \/ s.overflow \/ e.overflow \/ r.overflow)
        THEN PanicProperties
        ELSE IF narrow
        THEN [panic |-> FALSE, width |-> r.v, height |-> size, stride |-> stride]
        ELSE [panic |-> FALSE, width |-> size, height |-> r.v, stride |-> stride]

\* (self.width * self.height) as usize
pixel_count(p, oc) ==
    LET m == Mul(p.width, p.height)
    IN  [panic |-> oc /\ m.overflow, v |-> m.v]

\* (self.width * self.height * self.stride) as usize
data_length(p, oc) ==
    LET m == Mul(p.width, p.height)
        n == Mul(m.v, p.stride)
    IN  [panic |-> oc /\ (m.overflow \/ n.overflow), v |-> n.v]

(***************************************************************************)
(* the three pixel decoders                                                *)
(***************************************************************************)

\* a decoder that panicked (an index out of bounds) and returned nothing
PanicBuffer == [panic |-> TRUE, buf |-> <<>>]

\* The nested loops `for x in 0..width { for y in 0..height {..} }` visit the pixels
\* in the order i = y + x*height = 0, 1, 2, ... and read data[stride*i ..
\* stride*i + stride - 1] with a bounds check, so they panic exactly when the
\* data holds fewer than width*height pixels (the product taken without wrapping).
LoopOverruns(data, p, stride) ==
    LET m == Mul(p.width, p.height)
    IN  m.overflow \/ ~Fits(m.v) \/ ToInt(m.v) > Len(data) \div stride

\* the (x, y) of the q-th iteration of the nested loops, and its index y + x*height
LoopX(q, p) == q \div ToInt(p.height)
LoopY(q, p) == q % ToInt(p.height)
LoopIndex(q, p) == LoopY(q, p) + LoopX(q, p) * ToInt(p.height)

\* let p = data[i] as u32 | (data[i + 1] as u32) << 8;
Word(data, i) == BitOr(data[i + 1], data[i + 2] * 256)

\* r7g6b5a1_pixel with alpha taken from bit 15 alone
r7g6b5a1_pixel_alpha_bit(p) ==
    LET r == AsU8(BitAnd(p, 31744) \div 128)
        g == AsU8(BitAnd(p, 992) \div 4)
        b == AsU8(BitAnd(p, 31) * 8)
        a == IF BitAnd(p, 32768) = 0 THEN 0 ELSE 255
    IN  <<r, g, b, a>>

r7g6b5a1_pixel(p) ==
    LET r == AsU8(BitAnd(p, 31744) \div 128)
        g == AsU8(BitAnd(p, 992) \div 4)
        b == AsU8(BitAnd(p, 31) * 8)
        a == IF BitAnd(p, 32767) = 0 \/ BitAnd(p, 32768) = 0 THEN 0 ELSE 255
    IN  <<r, g, b, a>>

decompress_r7g6b5a1(data, p, oc) ==
    IF pixel_count(p, oc).panic \/ LoopOverruns(data, p, 2) THEN PanicBuffer
    ELSE LET n == ToInt(pixel_count(p, oc).v)
         IN  [panic |-> FALSE,
              buf |-> [j \in 1..(4 * n) |->
                         r7g6b5a1_pixel(Word(data, 2 * LoopIndex((j - 1) \div 4, p)))
                             [((j - 1) % 4) + 1]]]

\* argb4_pixel with alpha shifted down to the low nibble
argb4_pixel_low_alpha(p) ==
    LET r == AsU8(BitAnd(p, 3840) \div 16)
        g == AsU8(BitAnd(p, 240))
        b == AsU8(BitAnd(p, 15) * 16)
        a == AsU8(BitAnd(p, 61440) \div 4096)
    IN  <<r, g, b, a>>

argb4_pixel(p) ==
    LET r == AsU8(BitAnd(p, 3840) \div 16)
        g == AsU8(BitAnd(p, 240))
        b == AsU8(BitAnd(p, 15) * 16)
        a == AsU8(BitAnd(p, 61440) \div 256)
    IN  <<r, g, b, a>>

decompress_argb4(data, p, oc) ==
    IF pixel_count(p, oc).panic \/ LoopOverruns(data, p, 2) THEN PanicBuffer
    ELSE LET n == ToInt(pixel_count(p, oc).v)
         IN  [panic |-> FALSE,
              buf |-> [j \in 1..(4 * n) |->
                         argb4_pixel(Word(data, 2 * LoopIndex((j - 1) \div 4, p)))
                             [((j - 1) % 4) + 1]]]

\* `<<` on an i16: the low 16 bits of the shifted value, read as signed
I16Shl(f, n) ==
    LET u == (f * 2^n) % 65536
    IN  IF u >= 32768 THEN u - 65536 ELSE u

\* `>>` on an i16: arithmetic, the sign propagates
I16Shr(f, n) == f \div 2^n

\* the field widened as it is, without the two shifts
SignExtend9_unshifted(f) == f

\* ((field << 7) >> 7) as i32
SignExtend9(f) == I16Shr(I16Shl(f, 7), 7)

Clamp(v, lo, hi) == IF v < lo THEN lo ELSE IF v > hi THEN hi ELSE v

rgb8a1_pixel(p, brightness, rgb_0, rgb_1) ==
    LET l == brightness[(p \div 16) + 1]
        i0 == (p \div 4) % 4
        r0 == SignExtend9(rgb_0[i0 + 1].r)
        g0 == SignExtend9(rgb_0[i0 + 1].g)
        b0 == SignExtend9(rgb_0[i0 + 1].b)
        i1 == p % 4
        r1 == SignExtend9(rgb_1[i1 + 1].r)
        g1 == SignExtend9(rgb_1[i1 + 1].g)
        b1 == SignExtend9(rgb_1[i1 + 1].b)
        r == AsU8(Clamp(l + r0 + r1, 0, 255))
        g == AsU8(Clamp(l + g0 + g1, 0, 255))
        b == AsU8(Clamp(l + b0 + b1, 0, 255))
        a == IF BitOr(BitOr(r, g), b) = 0 THEN 0 ELSE 255
    IN  <<r, g, b, a>>

\* result[at] = result[from], with Vec's bounds check (0-based indices)
CopyByte(res, at, from) ==
    IF res.panic \/ at >= Len(res.buf) \/ from >= Len(res.buf) THEN PanicBuffer
    ELSE [panic |-> FALSE, buf |-> [res.buf EXCEPT ![at + 1] = res.buf[from + 1]]]

\* one iteration of `for i in 1..data.len().min(3)`
overwrite_step(res, i, p) ==
    LET x == i % ToInt(p.width)
        y == i \div ToInt(p.height)
        ri == 4 * (x + y * ToInt(p.width))
    IN  CopyByte(CopyByte(CopyByte(CopyByte(res, ri, 0), ri + 1, 1), ri + 2, 2), ri + 3, 3)

\* the iterations i, i+1, ..., n-1 of the overwrite loop
RECURSIVE overwrite_loop(_, _, _, _)
overwrite_loop(res, i, n, p) ==
    IF i >= n \/ res.panic THEN res
    ELSE overwrite_loop(overwrite_step(res, i, p), i + 1, n, p)

Min(a, b) == IF a < b THEN a ELSE b

decompress_rgb8a1(data, p, brightness, rgb_0, rgb_1, oc) ==
    IF pixel_count(p, oc).panic \/ LoopOverruns(data, p, 1) THEN PanicBuffer
    ELSE LET n == ToInt(pixel_count(p, oc).v)
             decoded == [j \in 1..(4 * n) |->
                           rgb8a1_pixel(data[LoopIndex((j - 1) \div 4, p) + 1],
                                        brightness, rgb_0, rgb_1)[((j - 1) % 4) + 1]]
         IN  overwrite_loop([panic |-> FALSE, buf |-> decoded], 1, Min(Len(data), 3), p)

(***************************************************************************)
(* decompress                                                              *)
(***************************************************************************)

\* tag is "Ok" (buf is the RGBA8 buffer), "Err" (the length check failed) or
\* "Panic" (the call did not return)
Outcome(tag, buf) == [tag |-> tag, buf |-> buf]

decompress(texture, oc) ==
    LET p == from_texture(texture, oc)
        expected_data_length == data_length(p, oc)
    IN  IF p.panic \/ expected_data_length.panic THEN Outcome("Panic", <<>>)
        ELSE IF U32(Len(texture.data)) # expected_data_length.v THEN Outcome("Err", <<>>)
        ELSE LET res ==
                     IF texture.format = R7G6B5A1
                     THEN decompress_r7g6b5a1(texture.data, p, oc)
                     ELSE IF texture.format = ARGB4
                     THEN decompress_argb4(texture.data, p, oc)
                     ELSE decompress_rgb8a1(texture.data, p, texture.brightness,
                                            texture.rgb_0, texture.rgb_1, oc)
             IN  IF res.panic THEN Outcome("Panic", <<>>) ELSE Outcome("Ok", res.buf)

(***************************************************************************)
(* the container layout (binrw, little-endian)                             *)
(***************************************************************************)

\* a u32, u16, i16 at byte offset `at` of s (0-based)
ReadU32(s, at) ==
    [hi |-> s[at + 3] + 256 * s[at + 4], lo |-> s[at + 1] + 256 * s[at + 2]]

ReadU16(s, at) == s[at + 1] + 256 * s[at + 2]

ReadI16(s, at) ==
    LET u == ReadU16(s, at)
    IN  IF u >= 32768 THEN u - 65536 ELSE u

\* Rgb: three i16
ReadRgb(s, at) ==
    [r |-> ReadI16(s, at), g |-> ReadI16(s, at + 2), b |-> ReadI16(s, at + 4)]

\* the bytes of a Texture before its data: 4*4 + 2*2 + 16 + 4*6 + 4*6 + 24*2 + 2*4
TextureHeaderSize == 16 + 4 + 16 + 24 + 24 + 48 + 8

\* a read that failed: nothing is produced
ReadError == [ok |-> FALSE, texture |-> <<>>, next |-> 0]

\* read_texture without the two assertions
read_texture_unasserted(s, at) ==
    IF at + TextureHeaderSize > Len(s) THEN ReadError
    ELSE LET format == ReadU32(s, at + 12)
             data_count_0 == ReadU32(s, at + 132)
             body == at + TextureHeaderSize
             t == [size_0 |-> ReadU32(s, at),
                   size_1 |-> ReadU32(s, at + 4),
                   aspect_ratio |-> ReadU32(s, at + 8),
                   format |-> format.lo,
                   unk_0 |-> [k \in 1..2 |-> ReadU16(s, at + 16 + 2 * (k - 1))],
                   brightness |-> [k \in 1..16 |-> s[at + 20 + k]],
                   rgb_0 |-> [k \in 1..4 |-> ReadRgb(s, at + 36 + 6 * (k - 1))],
                   rgb_1 |-> [k \in 1..4 |-> ReadRgb(s, at + 60 + 6 * (k - 1))],
                   unk_1 |-> [k \in 1..24 |-> ReadU16(s, at + 84 + 2 * (k - 1))],
                   data_count_0 |-> data_count_0,
                   data_count_1 |-> ReadU32(s, at + 136),
                   data |-> IF Fits(data_count_0)
                            THEN [k \in 1..ToInt(data_count_0) |-> s[body + k]]
                            ELSE <<>>]
         IN  IF format.hi # 0 \/ format.lo \notin TextureFormats THEN ReadError
             ELSE IF ~Fits(data_count_0) \/ ToInt(data_count_0) > Len(s) - body
             THEN ReadError
             ELSE [ok |-> TRUE, texture |-> t, next |-> body + ToInt(data_count_0)]

\* Texture::read at offset `at`: the fields in declaration order, the enum
\* decode of format, data_count_0 bytes of data, then the two assertions
read_texture(s, at) ==
    IF at + TextureHeaderSize > Len(s) THEN ReadError
    ELSE LET format == ReadU32(s, at + 12)
             data_count_0 == ReadU32(s, at + 132)
             body == at + TextureHeaderSize
             t == [size_0 |-> ReadU32(s, at),
                   size_1 |-> ReadU32(s, at + 4),
                   aspect_ratio |-> ReadU32(s, at + 8),
                   format |-> format.lo,
                   unk_0 |-> [k \in 1..2 |-> ReadU16(s, at + 16 + 2 * (k - 1))],
                   brightness |-> [k \in 1..16 |-> s[at + 20 + k]],
                   rgb_0 |-> [k \in 1..4 |-> ReadRgb(s, at + 36 + 6 * (k - 1))],
                   rgb_1 |-> [k \in 1..4 |-> ReadRgb(s, at + 60 + 6 * (k - 1))],
                   unk_1 |-> [k \in 1..24 |-> ReadU16(s, at + 84 + 2 * (k - 1))],
                   data_count_0 |-> data_count_0,
                   data_count_1 |-> ReadU32(s, at + 136),
                   data |-> IF Fits(data_count_0)
                            THEN [k \in 1..ToInt(data_count_0) |-> s[body + k]]
                            ELSE <<>>]
         IN  IF format.hi # 0 \/ format.lo \notin TextureFormats THEN ReadError
             ELSE IF ~Fits(data_count_0) \/ ToInt(data_count_0) > Len(s) - body
             THEN ReadError
             ELSE IF t.size_0 # t.size_1 \/ t.data_count_0 # t.data_count_1
             THEN ReadError
             ELSE [ok |-> TRUE, texture |-> t, next |-> body + ToInt(data_count_0)]

WriteU32(v) == <<v.lo % 256, v.lo \div 256, v.hi % 256, v.hi \div 256>>

WriteU16(u) == <<u % 256, u \div 256>>

WriteI16(f) == WriteU16(f % 65536)

WriteRgb(c) == WriteI16(c.r) \o WriteI16(c.g) \o WriteI16(c.b)

RECURSIVE Concat(_)
Concat(ss) == IF ss = <<>> THEN <<>> ELSE Head(ss) \o Concat(Tail(ss))

\* the bytes of one Texture record, fields in declaration order
write_texture(t) ==
    WriteU32(t.size_0) \o WriteU32(t.size_1) \o WriteU32(t.aspect_ratio)
        \o WriteU32(U32(t.format))
        \o Concat([k \in 1..2 |-> WriteU16(t.unk_0[k])])
        \o t.brightness
        \o Concat([k \in 1..4 |-> WriteRgb(t.rgb_0[k])])
        \o Concat([k \in 1..4 |-> WriteRgb(t.rgb_1[k])])
        \o Concat([k \in 1..24 |-> WriteU16(t.unk_1[k])])
        \o WriteU32(t.data_count_0) \o WriteU32(t.data_count_1)
        \o t.data

\* the bytes of a File: texture_count, then the records
write_file(count, ts) ==
    WriteU32(count) \o Concat([k \in 1..Len(ts) |-> write_texture(ts[k])])

(***************************************************************************)
(* extract_vfx: read the File, then for each texture derive the geometry,  *)
(* decompress and hand the buffer to the image writer                      *)
(***************************************************************************)

NoProperties == [panic |-> FALSE, width |-> U32(0), height |-> U32(0), stride |-> U32(0)]

NoResult == Outcome("None", <<>>)

\* the state extract_vfx starts in, for the file `bytes` and the build profile oc
Start(bytes, oc) ==
    /\ stream = bytes
    /\ overflow_checks = oc
    /\ pc = "read_count"
    /\ pos = 0
    /\ texture_count = U32(0)
    /\ textures = <<>>
    /\ parsed = "pending"
    /\ index = 0
    /\ properties = NoProperties
    /\ result = NoResult

\* File::read: texture_count
ReadTextureCount ==
    /\ pc = "read_count"
    /\ IF Len(stream) < 4
       THEN /\ parsed' = "err"
            /\ pc' = "panic"
            /\ UNCHANGED <<texture_count, pos>>
       ELSE /\ texture_count' = ReadU32(stream, 0)
            /\ pos' = 4
            /\ pc' = "read_textures"
            /\ UNCHANGED parsed
    /\ UNCHANGED <<stream, overflow_checks, textures, index, properties, result>>

\* File::read: the next of the texture_count records; an error ends read_le,
\* and extract_vfx unwraps it
ReadTexture ==
    /\ pc = "read_textures"
    /\ U32Lt(U32(Len(textures)), texture_count)
    /\ LET r == read_texture(stream, pos)
       IN  IF r.ok
           THEN /\ textures' = Append(textures, r.texture)
                /\ pos' = r.next
                /\ UNCHANGED <<parsed, pc>>
           ELSE /\ parsed' = "err"
                /\ pc' = "panic"
                /\ UNCHANGED <<textures, pos>>
    /\ UNCHANGED <<stream, overflow_checks, texture_count, index, properties, result>>

\* read_le returns the File; the loop over vfx.textures begins
ReadLeOk ==
    /\ pc = "read_textures"
    /\ U32(Len(textures)) = texture_count
    /\ parsed' = "ok"
    /\ pc' = IF Len(textures) = 0 THEN "done" ELSE "properties"
    /\ UNCHANGED <<stream, overflow_checks, pos, texture_count, textures, index,
                   properties, result>>

\* let properties = vfx::TextureProperties::from_texture(texture);
FromTexture ==
    /\ pc = "properties"
    /\ properties' = from_texture(textures[index + 1], overflow_checks)
    /\ pc' = IF properties'.panic THEN "panic" ELSE "decompress"
    /\ UNCHANGED <<stream, overflow_checks, pos, texture_count, textures, parsed,
                   index, result>>

\* let buffer = vfx::decompress(texture).unwrap();
Decompress ==
    /\ pc = "decompress"
    /\ result' = decompress(textures[index + 1], overflow_checks)
    /\ pc' = IF result'.tag = "Ok" THEN "save" ELSE "panic"
    /\ UNCHANGED <<stream, overflow_checks, pos, texture_count, textures, parsed,
                   index, properties>>

\* image::save_buffer(..); the iteration's locals are dropped, then the next texture
SaveBuffer ==
    /\ pc = "save"
    /\ index' = index + 1
    /\ pc' = IF index + 1 < Len(textures) THEN "properties" ELSE "done"
    /\ properties' = NoProperties
    /\ result' = NoResult
    /\ UNCHANGED <<stream, overflow_checks, pos, texture_count, textures, parsed>>

Next ==
    \/ ReadTextureCount
    \/ ReadTexture
    \/ ReadLeOk
    \/ FromTexture
    \/ Decompress
    \/ SaveBuffer

(***************************************************************************)
(* input files                                                             *)
(***************************************************************************)

ZeroRgb == [r |-> 0, g |-> 0, b |-> 0]

\* a texture record as it is laid out in a file; the duplicated fields may
\* disagree and format may be any number
Record(size_0, size_1, aspect_ratio, format, brightness, rgb_0, rgb_1, data_count_0, data_count_1, data) ==
    [size_0 |-> U32(size_0), size_1 |-> U32(size_1),
     aspect_ratio |-> U32(aspect_ratio), format |-> format,
     unk_0 |-> [k \in 1..2 |-> 0],
     brightness |-> brightness, rgb_0 |-> rgb_0, rgb_1 |-> rgb_1,
     unk_1 |-> [k \in 1..24 |-> 0],
     data_count_0 |-> U32(data_count_0), data_count_1 |-> U32(data_count_1),
     data |-> data]

\* n data bytes: seed, seed + step, seed + 2*step, ... (mod 256)
Ramp(n, seed, step) == [k \in 1..n |-> (seed + (k - 1) * step) % 256]

\* sixteen luminance levels
BrightnessTable(base, step) == [k \in 1..16 |-> (base + (k - 1) * step) % 256]

ZeroPalette == [k \in 1..4 |-> ZeroRgb]

\* palette fields: the 9-bit range, its edges, and values with bits above the 9th
FieldSamples ==
    <<0, 1, -1, 255, -256, 256, 511, 512, -257, 32767, -32768, 100,
      -101, 156, 257, -512, 767, 1000, -1000, 383, -384, 16384, -255, 254>>

\* four triplets taken from FieldSamples, starting at `seed`
Palette(seed) ==
    [k \in 1..4 |->
        [r |-> FieldSamples[((seed + 3 * (k - 1)) % Len(FieldSamples)) + 1],
         g |-> FieldSamples[((seed + 3 * (k - 1) + 1) % Len(FieldSamples)) + 1],
         b |-> FieldSamples[((seed + 3 * (k - 1) + 2) % Len(FieldSamples)) + 1]]]

\* the words 0x0000, 0x8000, 0xFFFF, 0xF123 (little-endian), repeated to n bytes
WordPattern == <<0, 0, 0, 128, 255, 255, 35, 241>>
Words(n) == [k \in 1..n |-> WordPattern[((k - 1) % Len(WordPattern)) + 1]]

\* a file with one well-formed record
OneTexture(size, aspect_ratio, format, brightness, rgb_0, rgb_1, data) ==
    write_file(U32(1), <<Record(size, size, aspect_ratio, format, brightness,
                                rgb_0, rgb_1, Len(data), Len(data), data)>>)

Profiles == BOOLEAN

\* --- geometry and length check: every size code, a range of aspect ratios,
\* --- data lengths that do and do not match

MaxAspect == 8
MaxLenExp == 3

\* size codes above 8 make 8 - size_1 overflow
GeometrySizes == (0..8) \cup {9, 10, 24, 40}

\* aspect ratios from 35 on make the shift amount 32 or more
GeometryAspects == (0..MaxAspect) \cup {34, 35, 36}

GeometryLengths == {0, 3} \cup {2^e : e \in 0..MaxLenExp}

GeometryFiles ==
    {OneTexture(size, aspect_ratio, format, BrightnessTable(0, 17), ZeroPalette,
                ZeroPalette, Ramp(n, 16, 37)) :
        size \in GeometrySizes, aspect_ratio \in GeometryAspects,
        format \in TextureFormats, n \in GeometryLengths}

Init == \E bytes \in GeometryFiles, oc \in Profiles : Start(bytes, oc)

Spec == Init /\ [][Next]_vars

\* --- pixel decoding: textures whose data matches their geometry

MaxPixelExp == 2

PixelSizes == {8 - e : e \in 0..MaxPixelExp}
PixelAspects == 1..5
PixelLengths == {2^e : e \in 0..(2 * MaxPixelExp + 1)}

\* the bytes a 16-bit pixel word is assembled from
ByteSamples == {0, 1, 3, 15, 31, 32, 35, 124, 127, 128, 224, 240, 241, 255}

\* brightness[0] = 100 with rgb_0[0] = (-101, 156, 0): the sums -1, 256 and 100
EdgePalette == [k \in 1..4 |-> IF k = 1 THEN [r |-> -101, g |-> 156, b |-> 0] ELSE ZeroRgb]

PaletteChoices ==
    {<<BrightnessTable(100, 10), EdgePalette, ZeroPalette>>,
     <<BrightnessTable(0, 17), Palette(0), Palette(12)>>,
     <<BrightnessTable(0, 17), Palette(12), Palette(0)>>,
     <<BrightnessTable(100, 10), Palette(6), Palette(18)>>}

\* 1x1 RGB8A1 textures, every pixel byte
PixelFilesByte ==
    {OneTexture(8, 3, RGB8A1, c[1], c[2], c[3], <<p>>) :
        c \in PaletteChoices, p \in 0..255}

\* 1x1 textures of the two 16-bit formats
PixelFilesWord ==
    {OneTexture(8, 3, format, BrightnessTable(0, 17), ZeroPalette, ZeroPalette,
                <<lo, hi>>) :
        format \in {R7G6B5A1, ARGB4}, lo \in ByteSamples, hi \in ByteSamples}

\* textures of every shape the sizes and aspect ratios give
PixelFilesShape ==
    {OneTexture(size, aspect_ratio, format, c[1], c[2], c[3], data) :
        size \in PixelSizes, aspect_ratio \in PixelAspects, format \in TextureFormats,
        c \in {<<BrightnessTable(0, 17), ZeroPalette, ZeroPalette>>,
               <<BrightnessTable(0, 17), Palette(0), Palette(12)>>},
        data \in UNION {{Ramp(n, 16, 37), Words(n)} : n \in PixelLengths}}

PixelFiles == PixelFilesByte \cup PixelFilesWord \cup PixelFilesShape

InitPixels == \E bytes \in PixelFiles, oc \in Profiles : Start(bytes, oc)

SpecPixels == InitPixels /\ [][Next]_vars

\* --- container parsing: files of up to MaxTextures records, with duplicated
\* --- fields that disagree, formats that do not exist and counts that lie

MaxTextures == 2

ParseRecords ==
    {Record(s[1], s[2], 3, format, BrightnessTable(0, 17), ZeroPalette, ZeroPalette,
            d[1], d[2], d[3]) :
        s \in {<<8, 8>>, <<8, 7>>}, format \in {RGB8A1, 2},
        d \in {<<1, 1, <<16>>>>, <<1, 2, <<16>>>>, <<2, 1, <<16, 53>>>>,
               <<3, 3, <<1, 2>>>>}}
    \cup {Record(8, 8, 3, R7G6B5A1, BrightnessTable(0, 17), ZeroPalette, ZeroPalette,
                 2, 2, <<35, 241>>)}

ParseFiles ==
    {<<>>, <<1, 0>>}
    \cup {write_file(U32(count), records) :
            count \in 0..(MaxTextures + 1),
            records \in UNION {[1..n -> ParseRecords] : n \in 0..MaxTextures}}

InitParse == \E bytes \in ParseFiles, oc \in Profiles : Start(bytes, oc)

SpecParse == InitParse /\ [][Next]_vars

(***************************************************************************)
(* properties                                                              *)
(***************************************************************************)

\* the texture of the current loop iteration
Current == textures[index + 1]

\* from_texture has run for the current texture
Derived == properties # NoProperties

\* decompress has run for the current texture
Decompressed == result # NoResult

\* data.length differs from width*height*stride, the product taken exactly
LengthDiffers ==
    LET m == Mul(properties.width, properties.height)
        n == Mul(m.v, properties.stride)
    IN  m.overflow \/ n.overflow \/ n.v # U32(Len(Current.data))

\* pixel k (0-based, in buffer order) of the decoded buffer
PixelAt(k) == <<result.buf[4 * k + 1], result.buf[4 * k + 2],
                result.buf[4 * k + 3], result.buf[4 * k + 4]>>

\* the little-endian 16-bit word of pixel k of the current texture's data
WordAt(k) == Current.data[2 * k + 1] + 256 * Current.data[2 * k + 2]

\* C1: whenever data.length differs from width*height*stride, decompress returns
\* the error result and no buffer.
C1_LengthMismatchIsError ==
    (Decompressed /\ LengthDiffers) => (result.tag = "Err" /\ result.buf = <<>>)

\* C2: in the buffer of an RGB8A1 texture with at least 3 data bytes, pixels 1
\* and 2 are identical to pixel 0, whatever the shape.
C2_SecondAndThirdEqualFirst ==
    (result.tag = "Ok" /\ Current.format = RGB8A1 /\ Len(Current.data) >= 3)
        => (PixelAt(1) = PixelAt(0) /\ PixelAt(2) = PixelAt(0))

\* C3: whenever data.length equals width*height*stride, decompress returns a
\* buffer of exactly width*height*4 bytes and never aborts.
C3_MatchingLengthDecodes ==
    (Decompressed /\ ~LengthDiffers)
        => (result.tag = "Ok" /\ Len(result.buf) = 4 * ToInt(pixel_count(properties, FALSE).v))

\* the records of the stream as the layout places them, read byte by byte:
\* the k-th record starts after the count and the k-1 records before it
RawCount(at) == stream[at + 1] + 256 * stream[at + 2] + 65536 * stream[at + 3]

RECURSIVE RecordOffset(_)
RecordOffset(k) ==
    IF k = 1 THEN 4
    ELSE LET prev == RecordOffset(k - 1)
         IN  IF prev + TextureHeaderSize > Len(stream) THEN Len(stream)
             ELSE prev + TextureHeaderSize + RawCount(prev + 132)

\* the record at `at` is wholly in the stream and its duplicated fields disagree
RecordDisagrees(at) ==
    /\ at + TextureHeaderSize <= Len(stream)
    /\ \/ SubSeq(stream, at + 1, at + 4) # SubSeq(stream, at + 5, at + 8)
       \/ SubSeq(stream, at + 133, at + 136) # SubSeq(stream, at + 137, at + 140)

\* one of the texture_count records of the stream disagrees with itself
StreamDisagrees ==
    /\ Len(stream) >= 4
    /\ \E k \in 1..(MaxTextures + 1) :
          k <= RawCount(0) /\ RecordDisagrees(RecordOffset(k))

\* read_le has returned
ReadFinished == pc \notin {"read_count", "read_textures"}

\* C4: a stream with a record whose size_0/size_1 or data_count_0/data_count_1
\* disagree is rejected; a File that was read holds texture_count textures that
\* agree with the stream byte for byte, each with equal duplicated fields and
\* data of length data_count_0.
C4_ParsedContainerIsConsistent ==
    /\ (ReadFinished /\ StreamDisagrees) => parsed = "err"
    /\ parsed = "ok" =>
          /\ U32(Len(textures)) = texture_count
          /\ Len(textures) = RawCount(0)
          /\ \A k \in 1..Len(textures) :
                /\ textures[k].size_0 = textures[k].size_1
                /\ textures[k].data_count_0 = textures[k].data_count_1
                /\ U32(Len(textures[k].data)) = textures[k].data_count_0
          /\ SubSeq(stream, 1, pos) = write_file(texture_count, textures)

\* C4 witness: a File of two textures was read, the second with data
C4_Witness ==
    /\ parsed = "ok"
    /\ Len(textures) = 2
    /\ Len(textures[2].data) > 0
    /\ pos = Len(stream)

\* base >> n for a base of at most 2^8
Halve(base, n) == IF n > 8 THEN 0 ELSE base \div 2^n

\* the geometry the size code s and the aspect ratio a stand for
ExpectedWidth(s, a) == IF a > 3 THEN Halve(2^(8 - s), a - 3) ELSE 2^(8 - s)
ExpectedHeight(s, a) == IF a > 3 THEN 2^(8 - s) ELSE Halve(2^(8 - s), 3 - a)

\* C5: with size_1 <= 8 and shift amounts below 32, width, height and stride are
\* base = 1 << (8 - size_1) shifted as the aspect ratio says, stride 2 for the
\* 16-bit formats and 1 for RGB8A1; (8, 3) gives 1x1 and (5, 5) gives 2x8.
C5_GeometryFormula ==
    (Derived /\ Fits(Current.size_1) /\ ToInt(Current.size_1) <= 8
       /\ Fits(Current.aspect_ratio) /\ ToInt(Current.aspect_ratio) - 3 < 32)
    => LET size == ToInt(Current.size_1)
           aspect == ToInt(Current.aspect_ratio)
       IN  /\ ~properties.panic
           /\ properties.width = U32(ExpectedWidth(size, aspect))
           /\ properties.height = U32(ExpectedHeight(size, aspect))
           /\ properties.stride = U32(IF Current.format = RGB8A1 THEN 1 ELSE 2)
           /\ (size = 8 /\ aspect = 3)
                 => (properties.width = U32(1) /\ properties.height = U32(1))
           /\ (size = 5 /\ aspect = 5)
                 => (properties.width = U32(2) /\ properties.height = U32(8))

\* C5 witness: size_1 = 5, aspect_ratio = 5 derived as 2x8
C5_Witness ==
    /\ Derived
    /\ Current.size_1 = U32(5)
    /\ Current.aspect_ratio = U32(5)
    /\ properties.width = U32(2)
    /\ properties.height = U32(8)

\* the low 9 bits of a field as a signed number
Low9Signed(f) == LET m == f % 512 IN IF m >= 256 THEN m - 512 ELSE m

\* the three channel sums of the pixel byte p before clamping
ChannelSums(p) ==
    LET l == Current.brightness[(p \div 16) + 1]
        c0 == Current.rgb_0[((p \div 4) % 4) + 1]
        c1 == Current.rgb_1[(p % 4) + 1]
    IN  <<l + Low9Signed(c0.r) + Low9Signed(c1.r),
          l + Low9Signed(c0.g) + Low9Signed(c1.g),
          l + Low9Signed(c0.b) + Low9Signed(c1.b)>>

Saturate(v) == IF v <= 0 THEN 0 ELSE IF v >= 255 THEN 255 ELSE v

\* the RGBA the pixel byte p stands for
ExpectedRgb8a1(p) ==
    LET sums == ChannelSums(p)
        r == Saturate(sums[1])
        g == Saturate(sums[2])
        b == Saturate(sums[3])
    IN  <<r, g, b, IF r = 0 /\ g = 0 /\ b = 0 THEN 0 ELSE 255>>

PaletteFields ==
    UNION {{Current.rgb_0[k].r, Current.rgb_0[k].g, Current.rgb_0[k].b,
            Current.rgb_1[k].r, Current.rgb_1[k].g, Current.rgb_1[k].b} : k \in 1..4}

\* C6: an RGB8A1 pixel is clamp(l + s0 + s1, 0, 255) per channel, s0 and s1 the
\* low 9 bits of the palette fields sign-extended into [-256, 255]; a sum of -1
\* gives 0, a sum of 256 gives 255, alpha is 0 exactly when R = G = B = 0.
C6_Rgb8a1PixelFormula ==
    (result.tag = "Ok" /\ Current.format = RGB8A1 /\ Len(Current.data) >= 1)
    => LET p == Current.data[1]
           sums == ChannelSums(p)
           px == PixelAt(0)
       IN  /\ px = ExpectedRgb8a1(p)
           /\ \A c \in 1..3 :
                 /\ px[c] \in 0..255
                 /\ sums[c] = -1 => px[c] = 0
                 /\ sums[c] = 256 => px[c] = 255
           /\ px[4] = 0 <=> (px[1] = 0 /\ px[2] = 0 /\ px[3] = 0)
           /\ \A f \in PaletteFields :
                 /\ SignExtend9(f) \in (-256)..255
                 /\ SignExtend9(f) = Low9Signed(f)

\* C6 witness: a pixel whose red sum is -1 and whose green sum is 256
C6_Witness ==
    /\ result.tag = "Ok"
    /\ Current.format = RGB8A1
    /\ Len(Current.data) >= 1
    /\ ChannelSums(Current.data[1])[1] = -1
    /\ ChannelSums(Current.data[1])[2] = 256
    /\ PixelAt(0) = <<0, 255, 100, 255>>

\* the RGBA the R7G6B5A1 word p stands for
ExpectedR7g6b5a1(p) ==
    <<((p \div 1024) % 32) * 8,
      ((p \div 32) % 32) * 8,
      (p % 32) * 8,
      IF p % 32768 = 0 \/ p < 32768 THEN 0 ELSE 255>>

\* the number of pixels of the current texture
PixelTotal == ToInt(properties.width) * ToInt(properties.height)

\* C7: every pixel k of an R7G6B5A1 buffer is the word at data[2k..2k+1] split
\* as R = (p & 0x7C00) >> 7, G = (p & 0x03E0) >> 2, B = (p & 0x1F) << 3, with
\* alpha 0 when the low 15 bits are all 0 or bit 15 is clear, else 255.
C7_R7g6b5a1PixelFormula ==
    (result.tag = "Ok" /\ Current.format = R7G6B5A1)
    => /\ Len(result.buf) = 4 * PixelTotal
       /\ \A k \in 0..(PixelTotal - 1) :
             /\ PixelAt(k) = ExpectedR7g6b5a1(WordAt(k))
             /\ WordAt(k) = 0 => PixelAt(k) = <<0, 0, 0, 0>>
             /\ WordAt(k) = 32768 => PixelAt(k)[4] = 0
             /\ WordAt(k) = 65535 => PixelAt(k)[4] = 255

\* C7 witness: a non-square R7G6B5A1 texture holding the words 0x8000 and 0xFFFF
C7_Witness ==
    /\ result.tag = "Ok"
    /\ Current.format = R7G6B5A1
    /\ properties.width # properties.height
    /\ PixelTotal >= 4
    /\ WordAt(1) = 32768 /\ PixelAt(1) = <<0, 0, 0, 0>>
    /\ WordAt(2) = 65535 /\ PixelAt(2) = <<248, 248, 248, 255>>

\* the RGBA the ARGB4 word p stands for
ExpectedArgb4(p) ==
    <<((p \div 256) % 16) * 16,
      ((p \div 16) % 16) * 16,
      (p % 16) * 16,
      (p \div 4096) * 16>>

\* C8: every pixel of an ARGB4 buffer carries the four nibbles of its word in
\* the high halves of R, G, B, A with the low halves zero; 0xF123 gives
\* (0x10, 0x20, 0x30, 0xF0).
C8_Argb4PixelFormula ==
    (result.tag = "Ok" /\ Current.format = ARGB4)
    => /\ Len(result.buf) = 4 * PixelTotal
       /\ \A k \in 0..(PixelTotal - 1) :
             /\ PixelAt(k) = ExpectedArgb4(WordAt(k))
             /\ \A c \in 1..4 : PixelAt(k)[c] % 16 = 0
             /\ WordAt(k) = 61731 => PixelAt(k) = <<16, 32, 48, 240>>

\* C8 witness: an ARGB4 texture whose fourth word is 0xF123
C8_Witness ==
    /\ result.tag = "Ok"
    /\ Current.format = ARGB4
    /\ PixelTotal >= 4
    /\ WordAt(3) = 61731
    /\ PixelAt(3) = <<16, 32, 48, 240>>

\* C9: from_texture never crashes, and a size code above 8 or a shift amount of
\* 32 or more gives a width or height of 0.
C9_GeometryNeverFails ==
    Derived =>
       /\ ~properties.panic
       /\ (U32Lt(U32(8), Current.size_1) \/ ~U32Lt(Current.aspect_ratio, U32(35)))
             => (U32IsZero(properties.width) \/ U32IsZero(properties.height))

\* C10: in an RGB8A1 buffer every pixel other than 1 and 2 is the value decoded
\* from its own data byte.
C10_OverwriteTouchesOnlyTwoPixels ==
    (result.tag = "Ok" /\ Current.format = RGB8A1)
    => \A k \in 0..(PixelTotal - 1) :
          k \notin {1, 2} => PixelAt(k) = ExpectedRgb8a1(Current.data[k + 1])

====
